---- MODULE Spec2Model ----
(***************************************************************************)
(* Storage layer and card handlers of the flashcard application:           *)
(* LocalStorage, YandexDiskStorage and HybridStorage (src/storage), the    *)
(* create/delete handlers and save_cards (src/app.py), two requests served *)
(* at the same time, ExcelImporter (src/excel_utils/importer.py) and       *)
(* ExcelExporter (src/excel_utils/exporter.py).                            *)
(*                                                                         *)
(* A file is Absent or a sequence of JSON tokens.  A Document is a record  *)
(* [cards, themes, next_id]; a card is a record [id, question, answer,     *)
(* theme, difficulty, hidden, version].                                    *)
(***************************************************************************)
EXTENDS Integers, Sequences, FiniteSets, TLC

VARIABLES
    mode,        \* HybridStorage.mode
    token,       \* whether a yandex_token was passed to the constructor
    has_yandex,  \* HybridStorage.has_yandex
    localFile,   \* content of the local JSON file
    remoteFile,  \* content of the file on the remote disk
    op,          \* the operation that ran last
    arg,         \* the Document passed to the HybridStorage.save that ran last
                 \* or right before the last load
    calls,       \* the store operations the last operation invoked, in order
    env,         \* what the environment answered during the last operation
    localPre,    \* content of the local file when the last operation started
    remotePre,   \* content of the remote file when the last operation started
    loadRet,     \* what the last HybridStorage.load returned
    saveRet,     \* the results dict that save returned
    raised,      \* whether an exception escaped the last operation
    status,      \* the dict the last HybridStorage.get_status returned
    stats,       \* outcome of the last import_from_excel
    requests,    \* the HTTP requests the last storage operation sent, in order
    workbook,    \* the sheet of the workbook last exported or uploaded
    updated,     \* the Document the last import_from_excel handed to save_data
    exported,    \* outcome of the last export_to_excel
    flashed,     \* the message the last save_cards flashed
    pc,          \* where each of the concurrent callers stands
    held,        \* the Document each concurrent caller holds
    finished     \* the concurrent callers whose save returned, in order

vars == <<mode, token, has_yandex, localFile, remoteFile, op, arg, calls,
          env, localPre, remotePre, loadRet, saveRet, raised, status, stats,
          requests, workbook, updated, exported, flashed, pc, held, finished>>

\* What the Excel tools leave behind.
excelVars == <<workbook, updated, exported>>

\* What the concurrent callers leave behind.
raceVars == <<pc, held, finished>>

\* ---------------------------------------------------------------- bounds
MaxSaveCards == 2  \* cards in a Document handed to HybridStorage.save
MaxRows == 2       \* data rows of an imported workbook
MaxNextId == 3     \* the handlers stop issuing identifiers at this watermark
MaxCards == 3      \* cards of a Document that is exported or imported into repeatedly

\* read_excel_file(excel_file_path, max_rows=1000) in import_from_excel.
ImportMaxRows == 1000

Questions == {"Q1", "Q2"}
Themes == {"A"}

\* Config.DEFAULT_THEMES, transliterated.
DEFAULT_THEMES == <<"Rasteniya", "Zhivotnye", "Mineraly", "Nozody", "Sarkody">>

\* Every theme the model uses, in the order sorted() gives.
ThemeOrder == <<"A", "B", "Mineraly", "Nozody", "Rasteniya", "Sarkody", "Zhivotnye">>

\* Python's None, as the value of a card's version.
None == "<None>"

Absent == <<"<absent>">>

\* ----------------------------------------------------------------- texts
\* One step after another: Step is entered with the value of first.
Then(first, Step(_)) == CHOOSE out \in {Step(v) : v \in {first}} : TRUE

\* A text is spelled as a sequence of symbols: a word (a run of word
\* characters), the punctuation mark "?", the blank " ", "\n", "\r", or the
\* escape "_x000D_" that Excel leaves for a carriage return, the comma.
Spell ==
    [t \in {""} |-> <<>>]
    @@ [t \in {"Q1", "Q2", "q1", "A1", "A2", "A", "B", "v1", "easy", "medium", "hard",
               "?", "+", "-", "0", "1", "maybe",
               "EASY", "Easy", "MEDIUM", "HARD", "Hard", "LEGKIJ", "legkij", "SREDNIJ",
               "SLOZHNYJ", "DA", "da", "NET", "net", "yes", "YES", "Yes", "no", "NO",
               "true", "TRUE", "True", "false", "FALSE",
               "Legkij", "Srednij", "Slozhnyj", "Da", "Net",
               "Rasteniya", "Zhivotnye", "Mineraly", "Nozody", "Sarkody",
               "Vopros", "Otvet", "Tema", "Slozhnost", "Skrytyj", "Versiya"} |-> <<t>>]
    @@ [t \in {"q1?"} |-> <<"q1", "?">>]
    @@ [t \in {" Q1 "} |-> <<" ", "Q1", " ">>]
    @@ [t \in {"Q1\r\nQ2"} |-> <<"Q1", "\r", "\n", "Q2">>]
    @@ [t \in {"Q1\nQ2"} |-> <<"Q1", "\n", "Q2">>]
    @@ [t \in {"Q1\n\nQ2"} |-> <<"Q1", "\n", "\n", "Q2">>]
    @@ [t \in {"A1_x000D_A2"} |-> <<"A1", "_x000D_", "A2">>]
    @@ [t \in {"A1\nA2"} |-> <<"A1", "\n", "A2">>]
    @@ [t \in {"A, B"} |-> <<"A", ",", " ", "B">>]
    @@ [t \in {"B,"} |-> <<"B", ",">>]

\* str.lower() on a word.
Lower(w) ==
    CASE w = "Q1" -> "q1" [] w = "Q2" -> "q2" [] w = "A1" -> "a1" [] w = "A2" -> "a2"
      [] w = "A" -> "a" [] w = "B" -> "b" [] w = "Legkij" -> "legkij" [] w = "Srednij" -> "srednij"
      [] w = "Slozhnyj" -> "slozhnyj" [] w = "Da" -> "da" [] w = "Net" -> "net"
      [] w = "Rasteniya" -> "rasteniya" [] w = "Zhivotnye" -> "zhivotnye"
      [] w = "Mineraly" -> "mineraly" [] w = "Nozody" -> "nozody"
      [] w = "Sarkody" -> "sarkody"
      [] w \in {"EASY", "Easy"} -> "easy" [] w = "MEDIUM" -> "medium"
      [] w \in {"HARD", "Hard"} -> "hard" [] w = "LEGKIJ" -> "legkij"
      [] w = "SREDNIJ" -> "srednij" [] w = "SLOZHNYJ" -> "slozhnyj"
      [] w = "DA" -> "da" [] w = "NET" -> "net" [] w \in {"YES", "Yes"} -> "yes"
      [] w = "NO" -> "no" [] w \in {"TRUE", "True"} -> "true" [] w = "FALSE" -> "false"
      [] OTHER -> w

IsSpace(c) == c \in {" ", "\n", "\r"}

RECURSIVE Join(_)
Join(chars) == IF chars = <<>> THEN "" ELSE chars[1] \o Join(Tail(chars))

\* text.replace(old, new) for a one-symbol old.
Replace(chars, old, new) == [i \in DOMAIN chars |-> IF chars[i] = old THEN new ELSE chars[i]]

\* text.replace('\r\n', '\n')
RECURSIVE ReplaceCrLf(_)
ReplaceCrLf(chars) ==
    IF Len(chars) < 2 THEN chars
    ELSE IF chars[1] = "\r" /\ chars[2] = "\n"
    THEN <<"\n">> \o ReplaceCrLf(SubSeq(chars, 3, Len(chars)))
    ELSE <<chars[1]>> \o ReplaceCrLf(Tail(chars))

\* The three replacements clean_text and clean_cell_text start with.
UnixNewlines(chars) == Replace(ReplaceCrLf(Replace(chars, "_x000D_", "\n")), "\r", "\n")

\* str.strip()
RECURSIVE LStrip(_)
LStrip(chars) ==
    IF chars # <<>> /\ IsSpace(chars[1]) THEN LStrip(Tail(chars)) ELSE chars

RECURSIVE RStrip(_)
RStrip(chars) ==
    IF chars # <<>> /\ IsSpace(chars[Len(chars)])
    THEN RStrip(SubSeq(chars, 1, Len(chars) - 1)) ELSE chars

Strip(chars) == RStrip(LStrip(chars))

\* text.split('\n'): line is the line being read.
RECURSIVE SplitLines(_, _)
SplitLines(chars, line) ==
    IF chars = <<>> THEN <<line>>
    ELSE IF chars[1] = "\n" THEN <<line>> \o SplitLines(Tail(chars), <<>>)
    ELSE SplitLines(Tail(chars), Append(line, chars[1]))

\* '\n'.join(lines)
RECURSIVE JoinLines(_)
JoinLines(lines) ==
    IF lines = <<>> THEN <<>>
    ELSE IF Len(lines) = 1 THEN lines[1]
    ELSE lines[1] \o <<"\n">> \o JoinLines(Tail(lines))

\* ExcelImporter.clean_text on the symbols: the newlines made uniform, every
\* line stripped, the empty lines dropped.
CleanChars(chars) ==
    JoinLines(SelectSeq(Then(SplitLines(UnixNewlines(chars), <<>>),
                             LAMBDA lines : [i \in DOMAIN lines |-> Strip(lines[i])]),
                        LAMBDA line : line # <<>>))

\* re.sub(r'\s+', ' ', text)
RECURSIVE CollapseSpaces(_)
CollapseSpaces(chars) ==
    IF chars = <<>> THEN <<>>
    ELSE IF IsSpace(chars[1])
    THEN <<" ">> \o CollapseSpaces(LStrip(chars))
    ELSE <<chars[1]>> \o CollapseSpaces(Tail(chars))

LowerChars(chars) == [i \in DOMAIN chars |-> Lower(chars[i])]

\* ExcelImporter.normalize_text on the symbols: cleaned, lower case, the
\* punctuation removed, the runs of whitespace made one blank, stripped.
NormalizeChars(chars) ==
    Strip(CollapseSpaces(SelectSeq(LowerChars(CleanChars(chars)),
                                   LAMBDA c : c \notin {"?", ",", "+", "-"})))

\* str(card['theme']).split(','): t is the token being read.
RECURSIVE SplitCommas(_, _)
SplitCommas(chars, t) ==
    IF chars = <<>> THEN <<t>>
    ELSE IF chars[1] = "," THEN <<t>> \o SplitCommas(Tail(chars), <<>>)
    ELSE SplitCommas(Tail(chars), Append(t, chars[1]))

\* The themes import_from_excel takes from a card's theme: the tokens between
\* the commas, stripped, the empty ones left out.
ThemeTokens(chars) ==
    {Join(Strip(SplitCommas(chars, <<>>)[i])) : i \in DOMAIN SplitCommas(chars, <<>>)} \ {""}

\* clean_cell_text of the exporter on the symbols.
CleanCellChars(chars) == Strip(UnixNewlines(chars))

\* Every text of the model as clean_text, normalize_text, clean_cell_text
\* and str.lower() leave it, and the themes it names.
TextOf ==
    [t \in DOMAIN Spell |->
        [clean |-> Join(CleanChars(Spell[t])), normal |-> Join(NormalizeChars(Spell[t])),
         cell |-> Join(CleanCellChars(Spell[t])), lower |-> Join(LowerChars(Spell[t])),
         themes |-> ThemeTokens(Spell[t])]]

\* ExcelImporter.clean_text: falsy values give "".
CleanText(text) == IF text = None THEN "" ELSE TextOf[text].clean

\* clean_cell_text(text) in export_to_excel: falsy values give "".
CleanCellText(text) == IF text = None THEN "" ELSE TextOf[text].cell

\* ------------------------------------------------------------ documents
DefaultDocument == [cards |-> <<>>, themes |-> <<>>, next_id |-> 1]

\* The fields of a card the model follows.
DefaultCard == [id |-> 0, question |-> "", answer |-> "", theme |-> "",
                difficulty |-> "medium", hidden |-> FALSE, version |-> ""]

Card(id, question, answer, theme, difficulty, hidden, version) ==
    [id |-> id, question |-> question, answer |-> answer, theme |-> theme,
     difficulty |-> difficulty, hidden |-> hidden, version |-> version]

Ids(cards) == {cards[i].id : i \in DOMAIN cards}

UniqueIds(cards) == \A i, j \in DOMAIN cards : cards[i].id = cards[j].id => i = j

MaxOf(S) == IF S = {} THEN 0 ELSE CHOOSE m \in S : \A x \in S : x <= m

MinOf(S) == CHOOSE m \in S : \A x \in S : m <= x

\* Python truthiness of a loaded value: a dict is truthy iff it has a key.
Truthy(data) == DOMAIN data # {}

\* ----------------------------------------------------------- JSON codec
Quote(s) == "\"" \o s \o "\""

Strings == DOMAIN Spell

Numbers == 0 .. (ImportMaxRows + MaxNextId + MaxRows + 2)

\* The string and number literals of the JSON text, and what each stands for.
StrOf == [tok \in {Quote(s) : s \in Strings} |-> CHOOSE s \in Strings : Quote(s) = tok]

NumOf == [tok \in {ToString(n) : n \in Numbers} |-> CHOOSE n \in Numbers : ToString(n) = tok]

IsStr(tok) == tok \in DOMAIN StrOf

Unquote(tok) == StrOf[tok]

IsNum(tok) == tok \in DOMAIN NumOf

ToNum(tok) == NumOf[tok]

\* The keys of a card and of a Document.
Key == [id |-> Quote("id"), question |-> Quote("question"), answer |-> Quote("answer"),
        theme |-> Quote("theme"), difficulty |-> Quote("difficulty"),
        hidden |-> Quote("hidden"), version |-> Quote("version"),
        cards |-> Quote("cards"), themes |-> Quote("themes"), next_id |-> Quote("next_id")]

DumpCard(c) ==
    << "{", Key.id, ":", ToString(c.id), ",",
       Key.question, ":", Quote(c.question), ",",
       Key.answer, ":", Quote(c.answer), ",",
       Key.theme, ":", Quote(c.theme), ",",
       Key.difficulty, ":", Quote(c.difficulty), ",",
       Key.hidden, ":", (IF c.hidden THEN "true" ELSE "false"), ",",
       Key.version, ":", (IF c.version = None THEN "null" ELSE Quote(c.version)), "}" >>

\* The cards lo .. hi of the array, separated by commas.
RECURSIVE DumpCardsIn(_, _, _)
DumpCardsIn(cards, lo, hi) ==
    IF lo = hi THEN DumpCard(cards[lo])
    ELSE DumpCardsIn(cards, lo, (lo + hi) \div 2) \o <<",">>
         \o DumpCardsIn(cards, (lo + hi) \div 2 + 1, hi)

DumpCards(cards) == IF cards = <<>> THEN <<>> ELSE DumpCardsIn(cards, 1, Len(cards))

RECURSIVE DumpStrs(_)
DumpStrs(strs) ==
    IF strs = <<>> THEN <<>>
    ELSE IF Len(strs) = 1 THEN <<Quote(strs[1])>>
    ELSE <<Quote(strs[1]), ",">> \o DumpStrs(Tail(strs))

\* json.dump(data) / json.dumps(data): the Document as JSON text, token by
\* token.
JsonDumps(data) ==
    <<"{", Key.cards, ":", "[">> \o DumpCards(data.cards) \o <<"]", ",">>
    \o <<Key.themes, ":", "[">> \o DumpStrs(data.themes) \o <<"]", ",">>
    \o <<Key.next_id, ":", ToString(data.next_id), "}">>

Tok(toks, i) == IF i \in DOMAIN toks THEN toks[i] ELSE "<eof>"

\* One card object at position i, or a decode error.
LoadCard(toks, i) ==
    IF /\ Tok(toks, i) = "{"
       /\ Tok(toks, i + 1) = Key.id /\ Tok(toks, i + 2) = ":"
       /\ IsNum(Tok(toks, i + 3)) /\ Tok(toks, i + 4) = ","
       /\ Tok(toks, i + 5) = Key.question /\ Tok(toks, i + 6) = ":"
       /\ IsStr(Tok(toks, i + 7)) /\ Tok(toks, i + 8) = ","
       /\ Tok(toks, i + 9) = Key.answer /\ Tok(toks, i + 10) = ":"
       /\ IsStr(Tok(toks, i + 11)) /\ Tok(toks, i + 12) = ","
       /\ Tok(toks, i + 13) = Key.theme /\ Tok(toks, i + 14) = ":"
       /\ IsStr(Tok(toks, i + 15)) /\ Tok(toks, i + 16) = ","
       /\ Tok(toks, i + 17) = Key.difficulty /\ Tok(toks, i + 18) = ":"
       /\ IsStr(Tok(toks, i + 19)) /\ Tok(toks, i + 20) = ","
       /\ Tok(toks, i + 21) = Key.hidden /\ Tok(toks, i + 22) = ":"
       /\ Tok(toks, i + 23) \in {"true", "false"} /\ Tok(toks, i + 24) = ","
       /\ Tok(toks, i + 25) = Key.version /\ Tok(toks, i + 26) = ":"
       /\ (IsStr(Tok(toks, i + 27)) \/ Tok(toks, i + 27) = "null")
       /\ Tok(toks, i + 28) = "}"
    THEN [ok |-> TRUE, next |-> i + 29,
          val |-> Card(ToNum(toks[i + 3]), Unquote(toks[i + 7]), Unquote(toks[i + 11]),
                       Unquote(toks[i + 15]), Unquote(toks[i + 19]),
                       toks[i + 23] = "true",
                       IF toks[i + 27] = "null" THEN None ELSE Unquote(toks[i + 27]))]
    ELSE [ok |-> FALSE, next |-> i, val |-> DefaultCard]

\* The tokens a card and the separator after it take.
CardWidth == Len(DumpCard(DefaultCard)) + 1

\* The k-th element of the cards array that starts at position i.
CardAt(toks, i, k) == LoadCard(toks, i + CardWidth * (k - 1))

\* The array whose elements are cs, read from position i up to its "]".
LoadCardsUpTo(toks, i, cs) ==
    IF Tok(toks, i + CardWidth * Len(cs) - 1) = "]" /\ \A k \in DOMAIN cs : cs[k].ok
    THEN [ok |-> TRUE, val |-> [k \in DOMAIN cs |-> cs[k].val],
          next |-> i + CardWidth * Len(cs)]
    ELSE [ok |-> FALSE, val |-> <<>>, next |-> i]

\* The elements of the cards array from position i: the array ends with the
\* first element that has no comma after it.
LoadCards(toks, i) ==
    IF Tok(toks, i) = "]" THEN [ok |-> TRUE, val |-> <<>>, next |-> i + 1]
    ELSE LoadCardsUpTo(toks, i,
             [k \in 1 .. MinOf({j \in 1 .. Len(toks) \div CardWidth + 1 :
                                    Tok(toks, i + CardWidth * j - 1) # ","}) |->
                 CardAt(toks, i, k)])

\* The elements of the themes array from position i up to its "]".
RECURSIVE LoadStrs(_, _, _)
LoadStrs(toks, i, acc) ==
    IF Tok(toks, i) = "]" /\ acc = <<>> THEN [ok |-> TRUE, val |-> acc, next |-> i + 1]
    ELSE IF ~IsStr(Tok(toks, i)) THEN [ok |-> FALSE, val |-> <<>>, next |-> i]
    ELSE IF Tok(toks, i + 1) = ","
         THEN LoadStrs(toks, i + 2, Append(acc, Unquote(toks[i])))
    ELSE IF Tok(toks, i + 1) = "]"
         THEN [ok |-> TRUE, val |-> Append(acc, Unquote(toks[i])), next |-> i + 2]
    ELSE [ok |-> FALSE, val |-> <<>>, next |-> i]

\* json.load / json.loads: ok is FALSE where Python raises JSONDecodeError.
\* cs is the parsed cards array, ts the parsed themes array.
JsonLoadsTail(toks, cs, ts) ==
    IF /\ cs.ok /\ ts.ok
       /\ Tok(toks, ts.next) = ","
       /\ Tok(toks, ts.next + 1) = Key.next_id
       /\ Tok(toks, ts.next + 2) = ":"
       /\ IsNum(Tok(toks, ts.next + 3))
       /\ Tok(toks, ts.next + 4) = "}"
       /\ Len(toks) = ts.next + 4
    THEN [ok |-> TRUE,
          val |-> [cards |-> cs.val, themes |-> ts.val,
                   next_id |-> ToNum(toks[ts.next + 3])]]
    ELSE [ok |-> FALSE, val |-> DefaultDocument]

JsonLoadsThemes(toks, cs) ==
    JsonLoadsTail(toks, cs,
        IF /\ cs.ok
           /\ Tok(toks, cs.next) = "," /\ Tok(toks, cs.next + 1) = Key.themes
           /\ Tok(toks, cs.next + 2) = ":" /\ Tok(toks, cs.next + 3) = "["
        THEN LoadStrs(toks, cs.next + 4, <<>>)
        ELSE [ok |-> FALSE, val |-> <<>>, next |-> 0])

JsonLoads(toks) ==
    JsonLoadsThemes(toks,
        IF /\ Tok(toks, 1) = "{" /\ Tok(toks, 2) = Key.cards
           /\ Tok(toks, 3) = ":" /\ Tok(toks, 4) = "["
        THEN LoadCards(toks, 5)
        ELSE [ok |-> FALSE, val |-> <<>>, next |-> 0])

\* The parsed value, or the default Document where the code catches the
\* decode error and returns the default.
OrDefault(r) == IF r.ok THEN r.val ELSE DefaultDocument

\* ---------------------------------------------------------- LocalStorage
\* LocalStorage.load: the default Document when the file is absent or does
\* not parse (the exception is caught).
LocalLoad(file) ==
    IF file # Absent THEN OrDefault(JsonLoads(file)) ELSE DefaultDocument

\* What the file system does with a write: "ok"; "denied" (mkdir or open
\* raises, the file is untouched); "partial" (open() truncated the file and
\* the write raised after the first piece of text).
LocalWriteOutcomes == {"ok", "denied", "partial"}

\* LocalStorage.save opening the file with 'a'.
LocalSaveAppending(file, data, outcome) ==
    IF outcome = "ok"
    THEN [ret |-> TRUE, file |-> (IF file = Absent THEN <<>> ELSE file) \o JsonDumps(data)]
    ELSE IF outcome = "partial"
         THEN [ret |-> FALSE, file |-> SubSeq(JsonDumps(data), 1, 1)]
    ELSE [ret |-> FALSE, file |-> file]

\* LocalStorage.save: open(..., 'w') replaces the content; any exception
\* is caught and turned into False.
LocalSave(file, data, outcome) ==
    IF outcome = "ok" THEN [ret |-> TRUE, file |-> JsonDumps(data)]
    ELSE IF outcome = "partial"
         THEN [ret |-> FALSE, file |-> SubSeq(JsonDumps(data), 1, 1)]
    ELSE [ret |-> FALSE, file |-> file]

\* ----------------------------------------------------- YandexDiskStorage
\* An answer of the remote API to one two-phase transfer: s1 and s2 are the
\* status codes of the two requests (0: the request raised a timeout or a
\* connection error, -1: the request was not sent), href whether the first
\* answer carries a link, body what the download returns.
Ans(s1, href, s2, body) == [s1 |-> s1, href |-> href, s2 |-> s2, body |-> body]

NoAns == Ans(-1, FALSE, -1, "none")

Garbage == <<"<html>">>

\* The answers a download can get: the link request succeeds only for a
\* file that exists, and answers 404 only for one that does not.
LoadAnswers(remote) ==
    {Ans(0, FALSE, -1, "none"), Ans(500, FALSE, -1, "none")}
    \cup (IF remote = Absent
          THEN {Ans(404, FALSE, -1, "none")}
          ELSE {Ans(200, FALSE, -1, "none"), Ans(200, TRUE, 0, "none"),
                Ans(200, TRUE, 500, "none"), Ans(200, TRUE, 200, "garbage"),
                Ans(200, TRUE, 200, "file")})

\* The remote load delivered the remote file's content.
LoadSucceeded(ans) == ans = Ans(200, TRUE, 200, "file")

\* YandexDiskStorage.load letting a timeout of the link request escape.
YandexLoadRaisingOnTimeout(remote, ans) ==
    IF ans.s1 = 0
    THEN [raised |-> TRUE, data |-> DefaultDocument, reqs |-> <<"GET /resources/download">>]
    ELSE IF ans.s1 # 200 \/ ~ans.href
    THEN [raised |-> FALSE, data |-> DefaultDocument, reqs |-> <<"GET /resources/download">>]
    ELSE IF ans.s2 = 200
    THEN [raised |-> FALSE, reqs |-> <<"GET /resources/download", "GET href">>,
          data |-> OrDefault(JsonLoads(IF ans.body = "file" THEN remote ELSE Garbage))]
    ELSE [raised |-> FALSE, data |-> DefaultDocument,
          reqs |-> <<"GET /resources/download", "GET href">>]

\* YandexDiskStorage.load: every failure, a 404 included, yields the default
\* Document; no exception leaves the method.  reqs are the requests sent.
YandexLoad(remote, ans) ==
    IF ans.s1 = 0
    THEN [raised |-> FALSE, data |-> DefaultDocument, reqs |-> <<"GET /resources/download">>]
    ELSE IF ans.s1 = 404
    THEN [raised |-> FALSE, data |-> DefaultDocument, reqs |-> <<"GET /resources/download">>]
    ELSE IF ans.s1 # 200
    THEN [raised |-> FALSE, data |-> DefaultDocument, reqs |-> <<"GET /resources/download">>]
    ELSE IF ~ans.href
    THEN [raised |-> FALSE, data |-> DefaultDocument, reqs |-> <<"GET /resources/download">>]
    ELSE IF ans.s2 = 0
    THEN [raised |-> FALSE, data |-> DefaultDocument,
          reqs |-> <<"GET /resources/download", "GET href">>]
    ELSE IF ans.s2 = 200
         THEN [raised |-> FALSE, reqs |-> <<"GET /resources/download", "GET href">>,
               data |-> OrDefault(JsonLoads(IF ans.body = "file" THEN remote ELSE Garbage))]
    ELSE [raised |-> FALSE, data |-> DefaultDocument,
          reqs |-> <<"GET /resources/download", "GET href">>]

\* The answers an upload can get.
SaveAnswers ==
    {Ans(0, FALSE, -1, "none"), Ans(500, FALSE, -1, "none"),
     Ans(200, FALSE, -1, "none"), Ans(200, TRUE, 0, "none"),
     Ans(200, TRUE, 507, "none"), Ans(200, TRUE, 403, "none"),
     Ans(200, TRUE, 500, "none"), Ans(200, TRUE, 201, "none")}

\* YandexDiskStorage.save reporting True for every answered PUT.
YandexSaveReportingAccepted(remote, data, ans) ==
    IF ans.s1 # 200 \/ ~ans.href
    THEN [raised |-> FALSE, ret |-> FALSE, file |-> remote, reqs |-> <<"GET /resources/upload">>]
    ELSE IF ans.s2 = 0
    THEN [raised |-> FALSE, ret |-> FALSE, file |-> remote,
          reqs |-> <<"GET /resources/upload", "PUT href">>]
    ELSE IF ans.s2 \in {200, 201, 202}
    THEN [raised |-> FALSE, ret |-> TRUE, file |-> JsonDumps(data),
          reqs |-> <<"GET /resources/upload", "PUT href">>]
    ELSE [raised |-> FALSE, ret |-> TRUE, file |-> remote,
          reqs |-> <<"GET /resources/upload", "PUT href">>]

\* YandexDiskStorage.save asking for the link a second time after a refusal.
YandexSaveRetrying(remote, data, ans) ==
    IF ans.s1 # 200
    THEN [raised |-> FALSE, ret |-> FALSE, file |-> remote,
          reqs |-> <<"GET /resources/upload", "GET /resources/upload">>]
    ELSE IF ~ans.href
    THEN [raised |-> FALSE, ret |-> FALSE, file |-> remote, reqs |-> <<"GET /resources/upload">>]
    ELSE IF ans.s2 \in {200, 201, 202}
    THEN [raised |-> FALSE, ret |-> TRUE, file |-> JsonDumps(data),
          reqs |-> <<"GET /resources/upload", "PUT href">>]
    ELSE [raised |-> FALSE, ret |-> FALSE, file |-> remote,
          reqs |-> <<"GET /resources/upload", "PUT href">>]

\* YandexDiskStorage.save: the PUT is sent only with a link in hand; True
\* only for a PUT answered 200, 201 or 202; any exception is caught.  reqs
\* are the requests sent.
YandexSave(remote, data, ans) ==
    IF ans.s1 = 0
    THEN [raised |-> FALSE, ret |-> FALSE, file |-> remote, reqs |-> <<"GET /resources/upload">>]
    ELSE IF ans.s1 # 200
    THEN [raised |-> FALSE, ret |-> FALSE, file |-> remote, reqs |-> <<"GET /resources/upload">>]
    ELSE IF ~ans.href
    THEN [raised |-> FALSE, ret |-> FALSE, file |-> remote, reqs |-> <<"GET /resources/upload">>]
    ELSE IF ans.s2 = 0
    THEN [raised |-> FALSE, ret |-> FALSE, file |-> remote,
          reqs |-> <<"GET /resources/upload", "PUT href">>]
    ELSE IF ans.s2 \in {200, 201, 202}
    THEN [raised |-> FALSE, ret |-> TRUE, file |-> JsonDumps(data),
          reqs |-> <<"GET /resources/upload", "PUT href">>]
    ELSE [raised |-> FALSE, ret |-> FALSE, file |-> remote,
          reqs |-> <<"GET /resources/upload", "PUT href">>]

\* The answers test_connection can get (0: the request raised).
ConnAnswers == {0, 200, 401, 500}

\* YandexDiskStorage.test_connection.
TestConnection(s) == s = 200

\* -------------------------------------------------------- HybridStorage
Modes == {"local", "yandex", "hybrid"}

\* HybridStorage.__init__: the remote store exists only with a token and a
\* mode that uses it.
HasYandexIgnoringMode(m, tok) == tok

HasYandex(m, tok) == tok /\ m \in {"yandex", "hybrid"}

\* HybridStorage.load without the cache refresh.
HybridLoadNoCache(m, hy, local, l, y, w) ==
    IF m = "local" \/ ~hy
    THEN [ret |-> l, raised |-> FALSE, file |-> local, calls |-> <<"local.load">>, reqs |-> <<>>]
    ELSE [ret |-> y.data, raised |-> FALSE, file |-> local,
          calls |-> <<"yandex.load", "local.save">>, reqs |-> y.reqs]

\* HybridStorage.load reaching for the remote store whatever has_yandex is.
HybridLoadAlwaysRemote(m, hy, local, l, y, w) ==
    IF m = "local"
    THEN [ret |-> l, raised |-> FALSE, file |-> local, calls |-> <<"local.load">>, reqs |-> <<>>]
    ELSE [ret |-> y.data, raised |-> FALSE, file |-> w.file,
          calls |-> <<"yandex.load", "local.save">>, reqs |-> y.reqs]

\* HybridStorage.load, given l, what local_storage.load() returns, y, what
\* yandex_storage.load() does, and w, what local_storage.save(y.data) does;
\* each is consulted only on the path that makes the call.
HybridLoadWith(m, hy, local, l, y, w) ==
    IF m = "local"
    THEN [ret |-> l, raised |-> FALSE, file |-> local, calls |-> <<"local.load">>, reqs |-> <<>>]
    ELSE IF m \in {"yandex", "hybrid"} /\ ~hy
    THEN [ret |-> l, raised |-> FALSE, file |-> local, calls |-> <<"local.load">>, reqs |-> <<>>]
    ELSE IF m = "yandex" /\ y.raised
    THEN [ret |-> DefaultDocument, raised |-> TRUE, file |-> local,
          calls |-> <<"yandex.load">>, reqs |-> y.reqs]
    ELSE IF m = "hybrid" /\ y.raised
    THEN [ret |-> l, raised |-> FALSE, file |-> local,
          calls |-> <<"yandex.load", "local.load">>, reqs |-> y.reqs]
    ELSE IF m \in {"yandex", "hybrid"} /\ Truthy(y.data)
    THEN [ret |-> y.data, raised |-> FALSE, file |-> w.file,
          calls |-> <<"yandex.load", "local.save">>, reqs |-> y.reqs]
    ELSE IF m \in {"yandex", "hybrid"}
    THEN [ret |-> y.data, raised |-> FALSE, file |-> local, calls |-> <<"yandex.load">>,
          reqs |-> y.reqs]
    ELSE [ret |-> l, raised |-> FALSE, file |-> local, calls |-> <<"local.load">>, reqs |-> <<>>]

\* The cache write of load: local_storage.save(y.data).
CacheWrite(local, y, lout) == LocalSave(local, y.data, lout)

\* HybridStorage.load.  ans is the remote answer, lout what the file system
\* does with the cache write.
HybridLoad(m, hy, local, remote, ans, lout) ==
    HybridLoadWith(m, hy, local, LocalLoad(local), YandexLoad(remote, ans),
                   CacheWrite(local, YandexLoad(remote, ans), lout))

PyBool(b) == IF b THEN "True" ELSE "False"

\* HybridStorage.save sending the remote write only after a local success.
HybridSaveRemoteOnlyAfterLocal(m, hy, remote, l, y) ==
    IF hy /\ m \in {"yandex", "hybrid"} /\ l.ret
    THEN [results |-> [local |-> l.ret,
                       yandex |-> IF y.raised THEN "False" ELSE PyBool(y.ret)],
          raised |-> FALSE, file |-> l.file, remote |-> y.file,
          calls |-> <<"local.save", "yandex.save">>, reqs |-> y.reqs]
    ELSE [results |-> [local |-> l.ret, yandex |-> "None"],
          raised |-> FALSE, file |-> l.file, remote |-> remote,
          calls |-> <<"local.save">>, reqs |-> <<>>]

\* HybridStorage.save folding the remote outcome into the local result.
HybridSaveAllOrNothing(m, hy, remote, l, y) ==
    IF hy /\ m \in {"yandex", "hybrid"}
    THEN [results |-> [local |-> l.ret /\ y.ret,
                       yandex |-> IF y.raised THEN "False" ELSE PyBool(y.ret)],
          raised |-> FALSE, file |-> l.file, remote |-> y.file,
          calls |-> <<"local.save", "yandex.save">>, reqs |-> y.reqs]
    ELSE [results |-> [local |-> l.ret, yandex |-> "None"],
          raised |-> FALSE, file |-> l.file, remote |-> remote,
          calls |-> <<"local.save">>, reqs |-> <<>>]

\* HybridStorage.save, given l, what local_storage.save(data) does, and y,
\* what yandex_storage.save(data) does: the local write first, then the
\* remote write when a remote store is configured; the two results are
\* returned side by side.
HybridSaveWith(m, hy, remote, l, y) ==
    IF hy /\ m \in {"yandex", "hybrid"}
    THEN [results |-> [local |-> l.ret,
                       yandex |-> IF y.raised THEN "False" ELSE PyBool(y.ret)],
          raised |-> FALSE, file |-> l.file, remote |-> y.file,
          calls |-> <<"local.save", "yandex.save">>, reqs |-> y.reqs]
    ELSE [results |-> [local |-> l.ret, yandex |-> "None"],
          raised |-> FALSE, file |-> l.file, remote |-> remote,
          calls |-> <<"local.save">>, reqs |-> <<>>]

\* HybridStorage.save.  lout is what the file system does with the local
\* write, ans the remote answer.
HybridSave(m, hy, local, remote, data, lout, ans) ==
    HybridSaveWith(m, hy, remote, LocalSave(local, data, lout),
                   YandexSave(remote, data, ans))

\* HybridStorage.get_status.
GetStatus(hy, local, conn) ==
    [ret |-> [local_exists |-> local # Absent, has_yandex |-> hy,
              yandex_connected |-> IF hy THEN PyBool(TestConnection(conn)) ELSE "absent",
              card_count |-> Len(LocalLoad(local).cards)],
     calls |-> IF hy THEN <<"local.exists", "yandex.test_connection", "local.load">>
               ELSE <<"local.exists", "local.load">>,
     reqs |-> IF hy THEN <<"GET /">> ELSE <<>>]

Has(seq, x) == \E i \in DOMAIN seq : seq[i] = x

IsRemoteCall(c) == c \in {"yandex.load", "yandex.save", "yandex.test_connection"}

\* ------------------------------------------------- the storage interface
\* The Documents a caller hands to save.
RECURSIVE SaveCards(_, _)
SaveCards(n, q) ==
    IF n = 0 THEN <<>>
    ELSE Append(SaveCards(n - 1, q), Card(n, q, "A1", "A", "medium", FALSE, None))

SaveDocs ==
    {[cards |-> SaveCards(n, q), themes |-> IF n = 0 THEN <<>> ELSE <<"A">>,
      next_id |-> n + 1] : n \in 0 .. MaxSaveCards, q \in Questions}

NoSaveRet == [local |-> FALSE, yandex |-> "None"]

NoEnv == [load |-> NoAns, save |-> NoAns, lout |-> "none", conn |-> -1]

NoStats == [success |-> FALSE, mode |-> "none", imported |-> 0, skipped |-> 0,
            errors |-> 0, total |-> 0, previous_total |-> 0, next_id |-> 0, collided |-> FALSE]

NoExport == [success |-> FALSE, error |-> "none"]

\* No caller is running concurrently.
NoCallers == <<>>

NoStatus == [local_exists |-> FALSE, has_yandex |-> FALSE,
             yandex_connected |-> "absent", card_count |-> 0]

Init ==
    /\ mode \in Modes
    /\ token \in BOOLEAN
    /\ has_yandex = HasYandex(mode, token)
    /\ localFile = Absent
    /\ remoteFile = Absent
    /\ op = "init"
    /\ arg = DefaultDocument
    /\ calls = <<>>
    /\ env = NoEnv
    /\ localPre = Absent
    /\ remotePre = Absent
    /\ loadRet = DefaultDocument
    /\ saveRet = NoSaveRet
    /\ raised = FALSE
    /\ status = NoStatus
    /\ stats = NoStats
    /\ requests = <<>>
    /\ workbook = <<>>
    /\ updated = DefaultDocument
    /\ exported = NoExport
    /\ flashed = "none"
    /\ pc = NoCallers
    /\ held = NoCallers
    /\ finished = <<>>

\* storage.load()
LoadSets(r, ans, lout) ==
    /\ Has(r.calls, "yandex.load") <=> ans # NoAns
    /\ Has(r.calls, "local.save") <=> lout # "none"
    /\ localFile' = r.file
    /\ loadRet' = r.ret
    /\ raised' = r.raised
    /\ calls' = r.calls
    /\ env' = [NoEnv EXCEPT !.load = ans, !.lout = lout]
    /\ op' = "load"
    /\ localPre' = localFile
    /\ remotePre' = remoteFile
    /\ arg' = IF op = "save" THEN arg ELSE DefaultDocument
    /\ saveRet' = IF op = "save" THEN saveRet ELSE NoSaveRet
    /\ status' = NoStatus
    /\ requests' = r.reqs
    /\ UNCHANGED <<mode, token, has_yandex, remoteFile, stats, excelVars, flashed, raceVars>>

Load ==
    \E ans \in LoadAnswers(remoteFile) \cup {NoAns},
       lout \in LocalWriteOutcomes \cup {"none"} :
        LoadSets(HybridLoad(mode, has_yandex, localFile, remoteFile, ans, lout), ans, lout)

\* storage.save(data)
SaveSets(r, data, lout, ans) ==
    /\ Has(r.calls, "yandex.save") <=> ans # NoAns
    /\ localFile' = r.file
    /\ remoteFile' = r.remote
    /\ saveRet' = r.results
    /\ raised' = r.raised
    /\ calls' = r.calls
    /\ arg' = data
    /\ env' = [NoEnv EXCEPT !.lout = lout, !.save = ans]
    /\ op' = "save"
    /\ localPre' = localFile
    /\ remotePre' = remoteFile
    /\ loadRet' = DefaultDocument
    /\ status' = NoStatus
    /\ requests' = r.reqs
    /\ UNCHANGED <<mode, token, has_yandex, stats, excelVars, flashed, raceVars>>

Save ==
    \E data \in SaveDocs, lout \in LocalWriteOutcomes, ans \in SaveAnswers \cup {NoAns} :
        SaveSets(HybridSave(mode, has_yandex, localFile, remoteFile, data, lout, ans),
                 data, lout, ans)

\* storage.get_status()
StatusSets(r, conn) ==
    /\ Has(r.calls, "yandex.test_connection") <=> conn # -1
    /\ status' = r.ret
    /\ calls' = r.calls
    /\ raised' = FALSE
    /\ env' = [NoEnv EXCEPT !.conn = conn]
    /\ op' = "get_status"
    /\ localPre' = localFile
    /\ remotePre' = remoteFile
    /\ arg' = DefaultDocument
    /\ loadRet' = DefaultDocument
    /\ saveRet' = NoSaveRet
    /\ requests' = r.reqs
    /\ UNCHANGED <<mode, token, has_yandex, localFile, remoteFile, stats, excelVars,
                   flashed, raceVars>>

Status ==
    \E conn \in ConnAnswers \cup {-1} : StatusSets(GetStatus(has_yandex, localFile, conn), conn)

Next == Load \/ Save \/ Status

Spec == Init /\ [][Next]_vars

\* ------------------------------------------------------- ExcelImporter
\* A row of the sheet, cell by cell; the model follows the number, the
\* question, the answer, the theme, the difficulty, the hidden mark and the
\* version.  The number cell holds a number (0: the cell is empty), every
\* other cell a text.
Row(id, question, answer, theme, difficulty, hidden, version) ==
    [id |-> id, question |-> question, answer |-> answer, theme |-> theme,
     difficulty |-> difficulty, hidden |-> hidden, version |-> version]

\* The header row the exporter writes, transliterated.
Headers == Row(0, "Vopros", "Otvet", "Tema", "Slozhnost", "Skrytyj", "Versiya")

Rows ==
    {r \in [id : 0 .. MaxNextId - 1, question : Questions \cup {""}, answer : {"", "A1"},
            theme : Themes, difficulty : {""}, hidden : {""}, version : {"v1"}] :
        /\ r.question = "" <=> r.answer = ""
        /\ r.question = "" => r.id = 0}

\* The sheets uploaded to the handlers: no row at all, or the header and up
\* to MaxRows data rows.
RowSeqs ==
    {<<>>} \cup UNION {{<<Headers>> \o data : data \in [1 .. n -> Rows]} : n \in 0 .. MaxRows}

\* The cells of a row as read_excel_file leaves them: clean_text(cell), which
\* is "" for the number 0 and str(cell) for any other number.
ReadRow(row) ==
    Row(IF row.id = 0 THEN "" ELSE ToString(row.id),
        CleanText(row.question), CleanText(row.answer), CleanText(row.theme),
        CleanText(row.difficulty), CleanText(row.hidden), CleanText(row.version))

\* ExcelImporter.read_excel_file(file_path, max_rows): the first max_rows
\* rows of the sheet, the header among them.
ReadExcelFile(sheet, max_rows) ==
    [i \in 1 .. (IF Len(sheet) < max_rows THEN Len(sheet) ELSE max_rows) |->
        ReadRow(sheet[i])]

\* ExcelImporter.normalize_text: clean_text, lower case, punctuation removed,
\* whitespace collapsed.
NormalizeText(text) == TextOf[text].normal

\* difficulty_map.get(difficulty_str, 'medium'), the label taken as written.
DifficultyMapAsWritten(difficulty_str) ==
    CASE difficulty_str \in {"legkij", "easy", "Legkij"} -> "easy"
      [] difficulty_str \in {"srednij", "medium", "Srednij"} -> "medium"
      [] difficulty_str \in {"slozhnyj", "hard", "Slozhnyj"} -> "hard"
      [] OTHER -> "medium"

\* difficulty_map.get(difficulty_str.lower(), 'medium')
DifficultyMap(difficulty_str) ==
    CASE TextOf[difficulty_str].lower \in {"legkij", "easy"} -> "easy"
      [] TextOf[difficulty_str].lower \in {"srednij", "medium"} -> "medium"
      [] TextOf[difficulty_str].lower \in {"slozhnyj", "hard"} -> "hard"
      [] OTHER -> "medium"

\* hidden_map.get(hidden_str.lower(), False)
HiddenMap(hidden_str) ==
    CASE TextOf[hidden_str].lower \in {"da", "yes", "true", "1", "+"} -> TRUE
      [] TextOf[hidden_str].lower \in {"net", "no", "false", "0", "-"} -> FALSE
      [] OTHER -> FALSE

\* int(id_str) if id_str and id_str.isdigit() else 0
CardId(id_str) == IF IsNum(id_str) THEN ToNum(id_str) ELSE 0

\* The card parse_excel_data makes of a row.
ParseRow(row) ==
    Card(CardId(row.id), row.question, row.answer, row.theme,
         DifficultyMap(row.difficulty), HiddenMap(row.hidden), row.version)

\* ExcelImporter.parse_excel_data: nothing without a data row; a row with
\* neither question nor answer is skipped, every other row becomes a card
\* carrying the row's number.
ParseExcelData(excel_data) ==
    IF Len(excel_data) < 2 THEN <<>>
    ELSE Then(SelectSeq(Tail(excel_data),
                        LAMBDA row : ~(row.question = "" /\ row.answer = "")),
              LAMBDA rows : [i \in DOMAIN rows |-> ParseRow(rows[i])])

\* ExcelImporter.load_current_data.
LoadCurrentData(file) ==
    IF file # Absent THEN OrDefault(JsonLoads(file)) ELSE DefaultDocument

\* ExcelImporter.save_data.
SaveData(file, data, outcome) ==
    IF outcome = "ok" THEN [ret |-> TRUE, file |-> JsonDumps(data)]
    ELSE IF outcome = "partial"
         THEN [ret |-> FALSE, file |-> SubSeq(JsonDumps(data), 1, 1)]
    ELSE [ret |-> FALSE, file |-> file]

\* existing_questions holding the questions as they are stored.
ExistingQuestionsAsStored(cards) == {cards[i].question : i \in DOMAIN cards}

\* The keys of existing_questions built from the current cards.
ExistingQuestions(cards) == {NormalizeText(cards[i].question) : i \in DOMAIN cards}

\* The append loop looking the question up as it was read.
ReconcileCardComparingRaw(st, card) ==
    IF card.question \in st.keys
    THEN [st EXCEPT !.skipped = @ + 1]
    ELSE [st EXCEPT !.keys = @ \cup {card.question}, !.new = Append(@, card)]

\* The append loop not recording the question of a card it appends.
ReconcileCardNotRecording(st, card) ==
    IF NormalizeText(card.question) \in st.keys
    THEN [st EXCEPT !.skipped = @ + 1]
    ELSE [st EXCEPT !.new = Append(@, card)]

\* One turn of the append loop, st being the keys of existing_questions, the
\* cards appended and skipped_count so far: a card whose normalized question
\* is already a key is skipped, any other is appended and its key recorded.
ReconcileCard(st, card) ==
    IF NormalizeText(card.question) \in st.keys
    THEN [st EXCEPT !.skipped = @ + 1]
    ELSE [st EXCEPT !.keys = @ \cup {NormalizeText(card.question)},
                    !.new = Append(@, card)]

\* The turns lo .. hi of the append loop, in order.
RECURSIVE ReconcileIn(_, _, _, _)
ReconcileIn(imported, lo, hi, st) ==
    IF lo > hi THEN st
    ELSE IF lo = hi THEN ReconcileCard(st, imported[lo])
    ELSE Then(ReconcileIn(imported, lo, (lo + hi) \div 2, st),
              LAMBDA half : ReconcileIn(imported, (lo + hi) \div 2 + 1, hi, half))

\* The append loop over the imported cards.
Reconcile(imported, keys) ==
    ReconcileIn(imported, 1, Len(imported), [keys |-> keys, new |-> <<>>, skipped |-> 0])

\* while new_id in assigned_ids: new_id += 1
RECURSIVE SkipAssigned(_, _)
SkipAssigned(new_id, assigned) ==
    IF new_id \in assigned THEN SkipAssigned(new_id + 1, assigned) ELSE new_id

\* The identifier loop over the new cards of an append.
RECURSIVE AssignIdsKeepingCollisions(_, _, _, _)
AssignIdsKeepingCollisions(new, new_id, assigned, acc) ==
    IF new = <<>> THEN [cards |-> acc, new_id |-> new_id]
    ELSE IF new[1].id = 0
    THEN AssignIdsKeepingCollisions(Tail(new), SkipAssigned(new_id, assigned) + 1,
                   assigned \cup {SkipAssigned(new_id, assigned)},
                   Append(acc, [new[1] EXCEPT !.id = SkipAssigned(new_id, assigned)]))
    ELSE AssignIdsKeepingCollisions(Tail(new), new_id, assigned \cup {new[1].id},
                                    Append(acc, new[1]))

RECURSIVE AssignIds(_, _, _, _)
AssignIds(new, new_id, assigned, acc) ==
    IF new = <<>> THEN [cards |-> acc, new_id |-> new_id]
    ELSE IF new[1].id = 0 \/ new[1].id \in assigned
    THEN AssignIds(Tail(new), SkipAssigned(new_id, assigned) + 1,
                   assigned \cup {SkipAssigned(new_id, assigned)},
                   Append(acc, [new[1] EXCEPT !.id = SkipAssigned(new_id, assigned)]))
    ELSE AssignIds(Tail(new), new_id, assigned \cup {new[1].id}, Append(acc, new[1]))

\* The renumbering leaving every card the identifier it came with.
RenumberKeepingIds(cards) == cards

\* for i, card in enumerate(all_cards, start=1): card['id'] = i
Renumber(cards) == [i \in DOMAIN cards |-> [cards[i] EXCEPT !.id = i]]

\* The identifiers and the watermark of the merged cards: current are the
\* cards kept from the Document, new the cards added by the import.
RecomputeIdsFromCurrentMax(m, current, new) ==
    IF m = "replace" \/ current = <<>>
    THEN [cards |-> Renumber(current \o new), next_id |-> Len(current \o new) + 1]
    ELSE [cards |-> current \o AssignIds(new, MaxOf(Ids(current)) + 1, Ids(current), <<>>).cards,
          next_id |-> AssignIds(new, MaxOf(Ids(current)) + 1, Ids(current), <<>>).new_id]

\* The identifiers numbered anew from 1 in append mode as well.
RecomputeIdsRenumberingAll(m, current, new) ==
    [cards |-> Renumber(current \o new), next_id |-> Len(current \o new) + 1]

RecomputeIds(m, current, new) ==
    IF m = "replace" \/ current = <<>>
    THEN [cards |-> Renumber(current \o new), next_id |-> Len(current \o new) + 1]
    ELSE [cards |-> current \o AssignIds(new, MaxOf(Ids(current \o new)) + 1,
                                         Ids(current), <<>>).cards,
          next_id |-> AssignIds(new, MaxOf(Ids(current \o new)) + 1,
                                Ids(current), <<>>).new_id]

\* A card put into a list sorted by identifier, behind the cards that do
\* not come after it.
InsertById(sorted, card) ==
    SelectSeq(sorted, LAMBDA c : c.id <= card.id) \o <<card>>
    \o SelectSeq(sorted, LAMBDA c : c.id > card.id)

\* The cards lo .. hi put one by one into the sorted list.
RECURSIVE SortInto(_, _, _, _)
SortInto(sorted, cards, lo, hi) ==
    IF lo > hi THEN sorted
    ELSE IF lo = hi THEN InsertById(sorted, cards[lo])
    ELSE Then(SortInto(sorted, cards, lo, (lo + hi) \div 2),
              LAMBDA half : SortInto(half, cards, (lo + hi) \div 2 + 1, hi))

\* all_cards.sort(key=lambda x: x['id']), a stable sort.
SortById(cards) == SortInto(<<>>, cards, 1, Len(cards))

\* The themes of the merged Document taking a card's theme as one theme.
AllThemesUnsplit(current_themes, cards) ==
    SelectSeq(ThemeOrder,
              LAMBDA t : t \in current_themes
                         \/ \E i \in DOMAIN cards : cards[i].theme = t /\ t # "")

\* The themes of the merged Document: those kept from before and every
\* theme named by a card, as a sorted list.
AllThemes(current_themes, cards) ==
    SelectSeq(ThemeOrder,
              LAMBDA t : t \in current_themes
                         \/ \E i \in DOMAIN cards : t \in TextOf[cards[i].theme].themes)

SeqSet(seq) == {seq[i] : i \in DOMAIN seq}

\* The Document import_from_excel hands to save_data.
UpdatedData(m, cur, ids) ==
    [cards |-> SortById(ids.cards),
     themes |-> AllThemes(IF m = "replace" THEN {} ELSE SeqSet(cur.themes), ids.cards),
     next_id |-> ids.next_id]

\* import_from_excel counting every card read as imported.
ImportSavedCountingRead(m, cur, rec, data, saved) ==
    IF ~saved.ret
    THEN [success |-> FALSE, file |-> saved.file, stats |-> NoStats, saves |-> TRUE,
          updated |-> data]
    ELSE [success |-> TRUE, file |-> saved.file, saves |-> TRUE, updated |-> data,
          stats |-> [success |-> TRUE, mode |-> m,
                     imported |-> Len(rec.new) + rec.skipped, skipped |-> rec.skipped,
                     errors |-> 0,
                     total |-> Len(data.cards), previous_total |-> Len(cur.cards),
                     next_id |-> data.next_id, collided |-> FALSE]]

\* import_from_excel from save_data on: a failed save returns (False, error),
\* a successful one the statistics.  success is the first component of the
\* returned pair, updated the Document handed to save_data; collided records
\* that a new card came with the identifier of a card already in the
\* Document.  errors_count stays 0: nothing in the append loop raises for
\* the cards parse_excel_data makes.
ImportSaved(m, cur, rec, data, saved) ==
    IF ~saved.ret
    THEN [success |-> FALSE, file |-> saved.file, stats |-> NoStats, saves |-> TRUE,
          updated |-> data]
    ELSE [success |-> TRUE, file |-> saved.file, saves |-> TRUE, updated |-> data,
          stats |-> [success |-> TRUE, mode |-> m,
                     imported |-> Len(rec.new), skipped |-> rec.skipped,
                     errors |-> 0,
                     total |-> Len(data.cards), previous_total |-> Len(cur.cards),
                     next_id |-> data.next_id,
                     collided |-> /\ m # "replace"
                                  /\ \E i \in DOMAIN rec.new :
                                        rec.new[i].id \in Ids(cur.cards)]]

ImportIds(file, m, cur, rec, data, lout) ==
    ImportSaved(m, cur, rec, data, SaveData(file, data, lout))

ImportReconciled(file, m, cur, rec, lout) ==
    ImportIds(file, m, cur, rec,
              UpdatedData(m, cur, RecomputeIds(m, IF m = "replace" THEN <<>> ELSE cur.cards,
                                               rec.new)),
              lout)

\* import_from_excel(excel_file_path, mode) once the rows are parsed: no
\* card in the file is an error, replace takes every card, append the
\* cards whose question is new.
ImportParsed(file, m, cur, imported, lout) ==
    IF imported = <<>>
    THEN [success |-> FALSE, file |-> file, stats |-> NoStats, saves |-> FALSE,
          updated |-> DefaultDocument]
    ELSE ImportReconciled(file, m, cur,
             IF m = "replace" THEN [keys |-> {}, new |-> imported, skipped |-> 0]
             ELSE Reconcile(imported, ExistingQuestions(cur.cards)),
             lout)

\* ExcelImporter.import_from_excel.
ImportFromExcel(file, sheet, m, lout) ==
    ImportParsed(file, m, LoadCurrentData(file),
                 ParseExcelData(ReadExcelFile(sheet, ImportMaxRows)), lout)

\* ------------------------------------------------------- ExcelExporter
\* difficulty_map.get(card.get('difficulty', 'medium'), 'Sredniy')
DifficultyText(difficulty) ==
    CASE difficulty = "easy" -> "Legkij"
      [] difficulty = "hard" -> "Slozhnyj"
      [] OTHER -> "Srednij"

\* The data row export_to_excel writes for a card.
ExportRow(card) ==
    Row(card.id, CleanCellText(card.question), CleanCellText(card.answer),
        CleanCellText(card.theme), DifficultyText(card.difficulty),
        IF card.hidden THEN "Da" ELSE "Net", CleanCellText(card.version))

\* export_to_excel writing also when there is no card.
ExportSheetWithoutCheck(cards) ==
    [success |-> TRUE, error |-> "none",
     sheet |-> <<Headers>> \o [i \in DOMAIN cards |-> ExportRow(cards[i])]]

\* export_to_excel once the cards are loaded: no card is the ValueError
\* "no data to export"; otherwise the header row and a row for every card.
ExportSheet(cards) ==
    IF cards = <<>> THEN [success |-> FALSE, error |-> "no data", sheet |-> <<>>]
    ELSE [success |-> TRUE, error |-> "none",
          sheet |-> <<Headers>> \o [i \in DOMAIN cards |-> ExportRow(cards[i])]]

\* ExcelExporter.export_to_excel over load_cards(), which gives the default
\* Document for an absent or unreadable file.
ExportToExcel(file) ==
    ExportSheet((IF file # Absent THEN OrDefault(JsonLoads(file)) ELSE DefaultDocument).cards)

\* ------------------------------------------------------ handlers (app.py)
\* The answers the handlers' storage calls get.
HandlerLoadAnswers(remote) ==
    {a \in LoadAnswers(remote) : a.s1 \in {0, 404} \/ LoadSucceeded(a)}

HandlerSaveAnswers == {Ans(0, FALSE, -1, "none"), Ans(200, TRUE, 201, "none")}

\* The outcomes of the local writes under the handlers and the importer.
HandlerWriteOutcomes == {"ok", "denied"}

\* load_cards(): storage.load(), or the default Document with the default
\* themes when it raises.
LoadCards_(r) ==
    IF r.raised THEN [cards |-> <<>>, themes |-> DEFAULT_THEMES, next_id |-> 1]
    ELSE r.ret

\* create_card: the new card takes next_id, and next_id moves on by one.
NewCard(cards_data, question, theme, version) ==
    [cards_data EXCEPT
        !.cards = Append(@, Card(cards_data.next_id, question, "A1", theme, "medium",
                                 FALSE, IF version = "" THEN None ELSE version)),
        !.next_id = @ + 1]

\* delete_card: every card with the identifier is dropped.
WithoutCard(cards_data, card_id) ==
    [cards_data EXCEPT
        !.cards = SelectSeq(@, LAMBDA c : c.id # card_id)]

\* What a handler leaves behind: the files, and nothing of the storage
\* interface's last call.
HandlerSets(name, local, remote, st, results, message) ==
    /\ localFile' = local
    /\ remoteFile' = remote
    /\ op' = name
    /\ stats' = st
    /\ arg' = DefaultDocument
    /\ calls' = <<>>
    /\ env' = NoEnv
    /\ localPre' = Absent
    /\ remotePre' = Absent
    /\ loadRet' = DefaultDocument
    /\ saveRet' = results
    /\ flashed' = message
    /\ raised' = FALSE
    /\ status' = NoStatus
    /\ requests' = <<>>
    /\ UNCHANGED <<mode, token, has_yandex, excelVars, raceVars>>

\* The message save_cards flashes for what storage.save did: results.get
\* ('yandex') is looked at, results['local'] is not.
SaveCardsMessage(s) ==
    IF s.raised THEN "save error"
    ELSE IF s.results.yandex = "False" THEN "saved locally, sync failed"
    ELSE IF s.results.yandex = "True" THEN "saved and synced"
    ELSE "saved locally"

\* save_cards(data): storage.save(data), then the message.
SaveCards_(name, s, ans) ==
    /\ Has(s.calls, "yandex.save") <=> ans # NoAns
    /\ HandlerSets(name, s.file, s.remote, NoStats, s.results, SaveCardsMessage(s))

\* POST /create with a valid form.
CreateWith(r, question, theme, ans, lout, lout2, ans2) ==
    /\ Has(r.calls, "yandex.load") <=> ans # NoAns
    /\ Has(r.calls, "local.save") <=> lout # "none"
    /\ LoadCards_(r).next_id < MaxNextId
    /\ SaveCards_("create",
                  HybridSave(mode, has_yandex, r.file, remoteFile,
                             NewCard(LoadCards_(r), question, theme, "v1"), lout2, ans2),
                  ans2)

CreateCard ==
    \E question \in Questions, theme \in Themes,
       ans \in HandlerLoadAnswers(remoteFile) \cup {NoAns},
       lout \in HandlerWriteOutcomes \cup {"none"}, lout2 \in HandlerWriteOutcomes,
       ans2 \in HandlerSaveAnswers \cup {NoAns} :
        CreateWith(HybridLoad(mode, has_yandex, localFile, remoteFile, ans, lout),
                   question, theme, ans, lout, lout2, ans2)

\* POST /card/<card_id>/delete: saved only when a card was dropped.
DeleteWith(r, card_id, ans, lout, lout2, ans2) ==
    /\ Has(r.calls, "yandex.load") <=> ans # NoAns
    /\ Has(r.calls, "local.save") <=> lout # "none"
    /\ IF Len(WithoutCard(LoadCards_(r), card_id).cards) < Len(LoadCards_(r).cards)
       THEN SaveCards_("delete",
                       HybridSave(mode, has_yandex, r.file, remoteFile,
                                  WithoutCard(LoadCards_(r), card_id), lout2, ans2),
                       ans2)
       ELSE /\ lout2 = "none" /\ ans2 = NoAns
            /\ HandlerSets("delete", r.file, remoteFile, NoStats, NoSaveRet, "none")

DeleteCard ==
    \E card_id \in 1 .. MaxNextId - 1,
       ans \in HandlerLoadAnswers(remoteFile) \cup {NoAns},
       lout \in HandlerWriteOutcomes \cup {"none"},
       lout2 \in HandlerWriteOutcomes \cup {"none"},
       ans2 \in HandlerSaveAnswers \cup {NoAns} :
        DeleteWith(HybridLoad(mode, has_yandex, localFile, remoteFile, ans, lout),
                   card_id, ans, lout, lout2, ans2)

\* importer.import_from_excel(file_path, mode) on the local JSON file.
ImportWith(r, lout) ==
    /\ r.saves <=> lout # "none"
    /\ r.success => r.stats.next_id <= MaxNextId
    /\ HandlerSets("import", r.file, remoteFile, r.stats, NoSaveRet, "none")

Import ==
    \E sheet \in RowSeqs, m \in {"append", "replace"},
       lout \in HandlerWriteOutcomes \cup {"none"} :
        ImportWith(ImportFromExcel(localFile, sheet, m, lout), lout)

\* GET /: load_cards() alone.
ViewWith(r, ans, lout) ==
    /\ Has(r.calls, "yandex.load") <=> ans # NoAns
    /\ Has(r.calls, "local.save") <=> lout # "none"
    /\ HandlerSets("index", r.file, remoteFile, NoStats, NoSaveRet, "none")

Index ==
    \E ans \in HandlerLoadAnswers(remoteFile) \cup {NoAns},
       lout \in HandlerWriteOutcomes \cup {"none"} :
        ViewWith(HybridLoad(mode, has_yandex, localFile, remoteFile, ans, lout),
                 ans, lout)

NextCards == CreateCard \/ DeleteCard \/ Import \/ Index

\* The application with a token, in local mode and in hybrid mode.
InitCards == Init /\ token /\ mode \in {"local", "hybrid"}

SpecCards == InitCards /\ [][NextCards]_vars

\* ------------------------------------------- export and import of a file
\* Documents the handlers leave in the file: every card deleted; a created
\* card and the one after it deleted; two created cards, one with a question
\* of two lines; two imported cards; an imported card without a question.
ExcelDocs ==
    { [cards |-> <<>>, themes |-> <<"A">>, next_id |-> 3],
      [cards |-> <<Card(1, "Q1", "A1", "A", "medium", FALSE, None)>>,
       themes |-> <<"A">>, next_id |-> 3],
      [cards |-> <<Card(1, "Q1\r\nQ2", "A1", "A", "easy", TRUE, "v1"),
                   Card(2, "Q2", "A2", "A", "hard", FALSE, None)>>,
       themes |-> <<"A">>, next_id |-> 3],
      [cards |-> <<Card(1, "q1?", "A1", "A", "medium", FALSE, ""),
                   Card(3, "Q2", "A1", "A", "hard", TRUE, "v1")>>,
       themes |-> <<"A">>, next_id |-> 4],
      [cards |-> <<Card(1, "", "A1", "A", "medium", FALSE, "")>>,
       themes |-> <<"A">>, next_id |-> 2] }

\* A Document of as many created cards as import_from_excel reads rows.
BulkDoc ==
    [cards |-> [i \in 1 .. ImportMaxRows |-> Card(i, "Q1", "A1", "A", "medium", FALSE, None)],
     themes |-> <<"A">>, next_id |-> ImportMaxRows + 1]

\* The rows of the uploaded sheets.
UploadRows ==
    { Row(0, "q1?", "A1", "A", "", "", ""),
      Row(0, " Q1 ", "A1", "A", "Legkij", "Da", "v1"),
      Row(1, "Q2", "A1_x000D_A2", "A, B", "hard", "Net", ""),
      Row(2, "Q1\n\nQ2", "A2", "B,", "Slozhnyj", "Da", "v1"),
      Row(0, "?", "A2", "A", "", "", ""),
      Row(0, "", "A1", "A", "", "", ""),
      Row(0, "", "", "", "", "", "") }

UploadSheets ==
    {<<>>} \cup UNION {{<<Headers>> \o data : data \in [1 .. n -> UploadRows]} : n \in 0 .. MaxRows}

\* A sheet of as many data rows as import_from_excel reads rows.
BulkSheet ==
    <<Headers>> \o [i \in 1 .. ImportMaxRows |-> Row(0, "Q2", "A1", "A", "", "", "")]

\* A file short enough to be exported, imported into and loaded again and
\* again; a longer one is exported and imported into once.
Small(file) == Len(file) <= CardWidth * (MaxCards + 1)

InitExcel ==
    /\ mode \in Modes
    /\ token = TRUE
    /\ has_yandex = HasYandex(mode, token)
    /\ \/ /\ localFile \in {Absent, <<"{">>} \cup {JsonDumps(d) : d \in ExcelDocs}
          /\ workbook \in UploadSheets
       \/ /\ mode = "local"
          /\ \/ localFile = JsonDumps(BulkDoc) /\ workbook = <<>>
             \/ localFile = Absent /\ workbook = BulkSheet
    /\ remoteFile \in {Absent} \cup (IF has_yandex /\ localFile # Absent
                                     THEN {JsonDumps(CHOOSE d \in ExcelDocs : Len(d.cards) = 1
                                                                     /\ d.next_id = 3)}
                                     ELSE {})
    /\ op = "init"
    /\ arg = DefaultDocument
    /\ calls = <<>>
    /\ env = NoEnv
    /\ localPre = Absent
    /\ remotePre = Absent
    /\ loadRet = DefaultDocument
    /\ saveRet = NoSaveRet
    /\ raised = FALSE
    /\ status = NoStatus
    /\ stats = NoStats
    /\ requests = <<>>
    /\ updated = DefaultDocument
    /\ exported = NoExport
    /\ flashed = "none"
    /\ pc = NoCallers
    /\ held = NoCallers
    /\ finished = <<>>

\* What an export or an import leaves of the storage interface's last call.
ExcelSets(name) ==
    /\ op' = name
    /\ localPre' = localFile
    /\ remotePre' = remoteFile
    /\ arg' = DefaultDocument
    /\ calls' = <<>>
    /\ env' = NoEnv
    /\ loadRet' = DefaultDocument
    /\ saveRet' = NoSaveRet
    /\ raised' = FALSE
    /\ status' = NoStatus
    /\ requests' = <<>>
    /\ UNCHANGED <<mode, token, has_yandex, remoteFile, flashed, raceVars>>

\* exporter.export_to_excel(): the workbook is what it returns.
ExportWith(r) ==
    /\ workbook' = r.sheet
    /\ exported' = [success |-> r.success, error |-> r.error]
    /\ stats' = NoStats
    /\ updated' = DefaultDocument
    /\ UNCHANGED localFile
    /\ ExcelSets("export")

ExportExcel ==
    /\ op = "init" \/ Small(localFile)
    /\ ExportWith(ExportToExcel(localFile))

\* importer.import_from_excel(workbook, mode); the export is remembered when
\* the workbook imported is the one just exported.
ImportExcelWith(r, m, lout) ==
    /\ r.saves <=> lout # "none"
    /\ localFile' = r.file
    /\ stats' = r.stats
    /\ updated' = r.updated
    /\ exported' = IF op = "export" THEN exported ELSE NoExport
    /\ UNCHANGED workbook
    /\ ExcelSets("import")

ImportExcel ==
    /\ op \in {"init", "export"} \/ (Small(localFile) /\ Len(workbook) <= MaxCards + 1)
    /\ \E m \in {"append", "replace"}, lout \in LocalWriteOutcomes \cup {"none"} :
          ImportExcelWith(ImportFromExcel(localFile, workbook, m, lout), m, lout)

\* storage.load() right after a successful import.
LoadAfterImport ==
    /\ op = "import" /\ stats.success /\ Small(localFile)
    /\ \E ans \in HandlerLoadAnswers(remoteFile) \cup {NoAns},
          lout \in HandlerWriteOutcomes \cup {"none"} :
          LoadSets(HybridLoad(mode, has_yandex, localFile, remoteFile, ans, lout), ans, lout)

NextExcel == ExportExcel \/ ImportExcel \/ LoadAfterImport

SpecExcel == InitExcel /\ [][NextExcel]_vars

\* ------------------------------------------- concurrent callers (app.py)
\* Two requests served at the same time, each running load_cards(), its
\* change and save_cards() on the local store; nothing locks the file.
Callers == {1, 2}

\* open(filepath, 'w') in LocalStorage.save: the file is there and empty.
LocalOpen(file) == <<>>

\* json.dump and the close of the file a caller opened for writing: the text
\* goes to the start of the file as it is by then, and what another writer
\* put behind the end of this text stays.
LocalWrite(file, data) ==
    JsonDumps(data) \o SubSeq(file, Len(JsonDumps(data)) + 1, Len(file))

\* The Documents create_card and delete_card hand to save_cards after
\* load_cards() gave cards_data.
Changes(cards_data) ==
    {NewCard(cards_data, question, "A", "") : question \in Questions}
    \cup {WithoutCard(cards_data, card_id) : card_id \in Ids(cards_data.cards)}

InitRace ==
    /\ mode = "local"
    /\ token = FALSE
    /\ has_yandex = HasYandex(mode, token)
    /\ localFile \in {Absent} \cup {JsonDumps(d) : d \in SaveDocs}
    /\ remoteFile = Absent
    /\ op = "init"
    /\ arg = DefaultDocument
    /\ calls = <<>>
    /\ env = NoEnv
    /\ localPre = Absent
    /\ remotePre = Absent
    /\ loadRet = DefaultDocument
    /\ saveRet = NoSaveRet
    /\ raised = FALSE
    /\ status = NoStatus
    /\ stats = NoStats
    /\ requests = <<>>
    /\ workbook = <<>>
    /\ updated = DefaultDocument
    /\ exported = NoExport
    /\ flashed = "none"
    /\ pc = [c \in Callers |-> "start"]
    /\ held = [c \in Callers |-> DefaultDocument]
    /\ finished = <<>>

\* What a step of a caller leaves alone.
RaceSets(c, at) ==
    /\ pc' = [pc EXCEPT ![c] = at]
    /\ UNCHANGED <<mode, token, has_yandex, remoteFile, op, arg, calls, env, localPre,
                   remotePre, loadRet, saveRet, raised, status, stats, requests,
                   excelVars, flashed>>

\* load_cards() and the change made to cards_data in the handler.
LoadAndChange(c) ==
    /\ pc[c] = "start"
    /\ \E data \in Changes(LocalLoad(localFile)) : held' = [held EXCEPT ![c] = data]
    /\ UNCHANGED <<localFile, finished>>
    /\ RaceSets(c, "changed")

\* save_cards(cards_data) as far as the open() of LocalStorage.save.
OpenForSave(c) ==
    /\ pc[c] = "changed"
    /\ localFile' = LocalOpen(localFile)
    /\ UNCHANGED <<held, finished>>
    /\ RaceSets(c, "opened")

\* The rest of LocalStorage.save: the dump, the close, the return.
WriteAndReturn(c) ==
    /\ pc[c] = "opened"
    /\ localFile' = LocalWrite(localFile, held[c])
    /\ finished' = Append(finished, c)
    /\ UNCHANGED held
    /\ RaceSets(c, "done")

NextRace == \E c \in Callers : LoadAndChange(c) \/ OpenForSave(c) \/ WriteAndReturn(c)

SpecRace == InitRace /\ [][NextRace]_vars

\* ------------------------------------------------- labels (importer.py)
\* The texts found in the difficulty cell and in the hidden cell of a row:
\* the spellings of difficulty_map and hidden_map in several letter cases,
\* the empty cell, and a text that is in neither table.
DifficultyLabels ==
    {"", "maybe", "easy", "EASY", "Easy", "medium", "MEDIUM", "hard", "HARD", "Hard",
     "legkij", "Legkij", "LEGKIJ", "Srednij", "SREDNIJ", "Slozhnyj", "SLOZHNYJ"}

HiddenLabels ==
    {"", "maybe", "da", "Da", "DA", "yes", "YES", "Yes", "true", "TRUE", "True", "1", "+",
     "net", "Net", "NET", "no", "NO", "false", "FALSE", "0", "-"}

\* A workbook of one data row has been uploaded.
InitParse ==
    /\ mode = "local"
    /\ token = FALSE
    /\ has_yandex = HasYandex(mode, token)
    /\ localFile = Absent
    /\ remoteFile = Absent
    /\ op = "init"
    /\ arg = DefaultDocument
    /\ calls = <<>>
    /\ env = NoEnv
    /\ localPre = Absent
    /\ remotePre = Absent
    /\ loadRet = DefaultDocument
    /\ saveRet = NoSaveRet
    /\ raised = FALSE
    /\ status = NoStatus
    /\ stats = NoStats
    /\ requests = <<>>
    /\ \E difficulty \in DifficultyLabels, hidden \in HiddenLabels :
          workbook = <<Headers, Row(0, "Q1", "A1", "A", difficulty, hidden, "")>>
    /\ updated = DefaultDocument
    /\ exported = NoExport
    /\ flashed = "none"
    /\ pc = NoCallers
    /\ held = NoCallers
    /\ finished = <<>>

\* parse_excel_data(read_excel_file(file, max_rows=1000)): updated takes the
\* cards parsed.
ParseWorkbook ==
    /\ op = "init"
    /\ op' = "parse"
    /\ updated' = [DefaultDocument EXCEPT
                      !.cards = ParseExcelData(ReadExcelFile(workbook, ImportMaxRows))]
    /\ UNCHANGED <<mode, token, has_yandex, localFile, remoteFile, arg, calls, env,
                   localPre, remotePre, loadRet, saveRet, raised, status, stats,
                   requests, workbook, exported, flashed, raceVars>>

SpecParse == InitParse /\ [][ParseWorkbook]_vars

\* ------------------------------------------------------------ properties
\* The remote write of the last save went through: a link, then a PUT
\* answered 200, 201 or 202.
SaveSucceeded(ans) == ans.s1 = 200 /\ ans.href /\ ans.s2 \in {200, 201, 202}

NoRemoteCall == \A i \in DOMAIN calls : ~IsRemoteCall(calls[i])

\* C1: in hybrid mode with a token, a load whose remote load failed returns
\* what LocalStorage.load() gives for the local file, and raises nothing.
C1_FallsBackToLocal ==
    (op = "load" /\ mode = "hybrid" /\ token /\ ~LoadSucceeded(env.load))
        => (loadRet = LocalLoad(localPre) /\ ~raised)

C3_SaveAttempts ==
    op = "save"
        => /\ calls # <<>> /\ calls[1] = "local.save"
           /\ Has(calls, "yandex.save") <=> (mode \in {"yandex", "hybrid"} /\ token)

C3_Witness ==
    op = "save" /\ ~saveRet.local /\ Has(calls, "yandex.save") /\ env.lout = "denied"

\* C4: results['local'] is the result of the local write alone;
\* results['yandex'] is None exactly when the remote write was not
\* attempted and False when it was attempted and failed; save raises nothing.
C4_SeparateOutcomes ==
    op = "save"
        => /\ saveRet.local = (env.lout = "ok")
           /\ saveRet.yandex \in {"True", "False", "None"}
           /\ saveRet.yandex = "None" <=> ~Has(calls, "yandex.save")
           /\ (Has(calls, "yandex.save") /\ ~SaveSucceeded(env.save))
                  => saveRet.yandex = "False"
           /\ ~raised

C4_Witness ==
    /\ op = "save" /\ saveRet.local /\ saveRet.yandex = "False"
    /\ env.save.s1 = 0 /\ LocalLoad(localFile) = arg /\ arg.cards # <<>>

\* C5: in local mode no operation invokes the remote store, token or not.
C5_LocalModeOffline ==
    mode = "local"
        => /\ NoRemoteCall
           /\ remoteFile = Absent
           /\ op = "get_status" => status.yandex_connected = "absent"

C5_Witness ==
    mode = "local" /\ token /\ op = "get_status" /\ status.card_count > 0

C7_DegradesToLocal ==
    (mode \in {"yandex", "hybrid"} /\ ~token)
        => /\ NoRemoteCall
           /\ ~raised
           /\ remoteFile = Absent
           /\ op = "load" => (loadRet = LocalLoad(localPre) /\ calls = <<"local.load">>)
           /\ op = "save" => (saveRet.yandex = "None" /\ calls = <<"local.save">>)

C7_Witness ==
    mode \in {"yandex", "hybrid"} /\ ~token /\ op = "load" /\ loadRet.cards # <<>>

\* C8: a local save(D) that returned True leaves a file that loads as D,
\* whatever the file held before.
C8_LocalRoundTrip ==
    (op = "save" /\ saveRet.local) => LocalLoad(localFile) = arg

C8_Witness ==
    /\ op = "save" /\ saveRet.local
    /\ LocalLoad(localPre).cards # <<>>
    /\ LocalLoad(localPre) # arg
    /\ arg.cards # <<>>

\* The Documents the stores hold.
Persisted == {LocalLoad(localFile), LocalLoad(remoteFile)}

C10_NextIdAboveIds ==
    \A d \in Persisted : \A i \in DOMAIN d.cards : d.cards[i].id < d.next_id

C10_Witness ==
    /\ op = "import" /\ stats.success /\ stats.mode = "append"
    /\ stats.previous_total >= 1 /\ stats.imported >= 1
    /\ LocalLoad(localFile).next_id = stats.next_id
    /\ MaxOf(Ids(LocalLoad(localFile).cards)) = stats.next_id - 1

\* C16: YandexDiskStorage.load raises nothing; it returns the content of
\* the remote file when both requests are answered 200 and the body parses,
\* and the default Document after a 404 and after every other failure.
C16_RemoteLoadNeverRaises ==
    (op = "load" /\ Has(calls, "yandex.load"))
        => /\ ~raised
           /\ loadRet = IF LoadSucceeded(env.load) /\ JsonLoads(remotePre).ok
                        THEN JsonLoads(remotePre).val ELSE DefaultDocument

C16_Witness ==
    /\ op = "load" /\ Has(calls, "yandex.load") /\ mode = "hybrid"
    /\ env.load = Ans(200, TRUE, 200, "garbage")
    /\ LocalLoad(remotePre).cards # <<>> /\ LocalLoad(localPre).cards # <<>>
    /\ loadRet = DefaultDocument /\ ~raised

\* C17: YandexDiskStorage.save asks for the upload link once and sends the
\* PUT at most once, only after the link request was answered 200 with an
\* href; it returns True only after a PUT answered 2xx, and False when
\* either request raised or was answered outside 2xx.
C17_TwoPhaseUpload ==
    (op = "save" /\ Has(calls, "yandex.save"))
        => /\ requests \in {<<"GET /resources/upload">>, <<"GET /resources/upload", "PUT href">>}
           /\ Has(requests, "PUT href") => (env.save.s1 = 200 /\ env.save.href)
           /\ saveRet.yandex = "True"
                  => (Has(requests, "PUT href") /\ env.save.s2 \in 200 .. 299)
           /\ (\/ env.save.s1 \notin 200 .. 299
               \/ Has(requests, "PUT href") /\ env.save.s2 \notin 200 .. 299)
                  => saveRet.yandex = "False"
           /\ ~raised

C17_Witness ==
    /\ op = "save" /\ requests = <<"GET /resources/upload", "PUT href">>
    /\ env.save.s2 = 507 /\ saveRet.yandex = "False" /\ remoteFile = remotePre
    /\ arg.cards # <<>>

\* The cards of the Document the last operation started from, and the cards
\* import_from_excel reads from the workbook.
CardsBefore == LoadCurrentData(localPre).cards

CardsRead == ParseExcelData(ReadExcelFile(workbook, ImportMaxRows))

\* How many of the cards have a question that normalizes to key.
CountKey(cards, key) ==
    Cardinality({i \in DOMAIN cards : NormalizeText(cards[i].question) = key})

\* How many of the cards have a question that normalizes to one of the keys.
CountKeys(cards, keys) ==
    Cardinality({i \in DOMAIN cards : NormalizeText(cards[i].question) \in keys})

DuplicatesSkipped(cur, read, st, new, saved) ==
    /\ st.imported + st.skipped = Len(read)
    /\ st.skipped >= CountKeys(read, ExistingQuestions(cur))
    /\ Len(new) = Len(cur) + st.imported
    /\ \A key \in ExistingQuestions(cur) : CountKey(new, key) = CountKey(cur, key)
    /\ CountKeys(read, ExistingQuestions(cur)) = Len(read)
           => (st.imported = 0 /\ Len(new) = Len(cur) /\ Len(saved) = Len(cur))

\* C11: an append skips every card read whose normalized question is the
\* normalized question of a card of the Document: it counts in skipped, not
\* in imported, and is not added; when every card read is such a card, the
\* Document keeps its number of cards.
C11_DuplicatesSkipped ==
    (op = "import" /\ stats.success /\ stats.mode = "append")
        => DuplicatesSkipped(CardsBefore, CardsRead, stats, updated.cards,
                             LocalLoad(localFile).cards)

C11_Witness ==
    /\ op = "import" /\ stats.success /\ stats.mode = "append"
    /\ stats.skipped = 1 /\ stats.imported = 1
    /\ \E i \in DOMAIN CardsRead :
          /\ NormalizeText(CardsRead[i].question) \in ExistingQuestions(CardsBefore)
          /\ \A j \in DOMAIN CardsBefore : CardsBefore[j].question # CardsRead[i].question

\* The questions of the cards normalize to pairwise different keys, none of
\* them among keys.
DistinctNewQuestions(cards, keys) ==
    /\ \A i \in DOMAIN cards : NormalizeText(cards[i].question) \notin keys
    /\ \A i, j \in DOMAIN cards :
          NormalizeText(cards[i].question) = NormalizeText(cards[j].question) => i = j

\* C12: an append of N cards whose normalized questions differ from one
\* another and from those of the Document sets imported to N and adds N
\* cards, each with an identifier that is unique in the Document and not
\* below the next_id the Document had before the import.
C12_AppendedIdsNotBelowNextId ==
    (/\ op = "import" /\ stats.success /\ stats.mode = "append"
     /\ DistinctNewQuestions(CardsRead, ExistingQuestions(CardsBefore)))
        => /\ stats.imported = Len(CardsRead)
           /\ Len(updated.cards) = Len(CardsBefore) + Len(CardsRead)
           /\ UniqueIds(updated.cards)
           /\ \A i \in DOMAIN updated.cards :
                 NormalizeText(updated.cards[i].question) \notin ExistingQuestions(CardsBefore)
                     => updated.cards[i].id >= LoadCurrentData(localPre).next_id

\* The data rows among the first n rows of the sheet that have a question or
\* an answer.
RowsKept(sheet, n) ==
    SelectSeq(SubSeq(sheet, 2, IF Len(sheet) < n THEN Len(sheet) ELSE n),
              LAMBDA row : ~(row.question = "" /\ row.answer = ""))

\* The cards are the rows, in order, numbered from 1, and next_id follows.
ReplacedBy(data, rows) ==
    /\ Len(data.cards) = Len(rows)
    /\ \A i \in DOMAIN data.cards :
          /\ data.cards[i].id = i
          /\ data.cards[i].question = CleanText(rows[i].question)
          /\ data.cards[i].answer = CleanText(rows[i].answer)
    /\ data.next_id = Len(rows) + 1

\* C13 as stated: after a replace the Document holds a card for every data
\* row of the file that has a question or an answer, numbered 1..count in
\* file order, and next_id is count+1.
C13_ReplaceTakesEveryRow ==
    (op = "import" /\ stats.success /\ stats.mode = "replace")
        => /\ ReplacedBy(updated, RowsKept(workbook, Len(workbook)))
           /\ LocalLoad(localFile) = updated

\* C13: after a replace the Document holds a card for every data row among
\* the first 1000 rows of the sheet (the header included) that has a question
\* or an answer, numbered 1..count in file order whatever numbers the rows or
\* the old Document carried, and next_id is count+1.
C13_ReplaceTakesRowsRead ==
    (op = "import" /\ stats.success /\ stats.mode = "replace")
        => /\ ReplacedBy(updated, RowsKept(workbook, ImportMaxRows))
           /\ LocalLoad(localFile) = updated

C13_Witness ==
    /\ op = "import" /\ stats.success /\ stats.mode = "replace"
    /\ Len(workbook) = 3 /\ workbook[2].question = "" /\ workbook[2].answer = ""
    /\ workbook[3].id = 2 /\ Len(updated.cards) = 1 /\ updated.cards[1].id = 1
    /\ Len(CardsBefore) = 2 /\ updated.next_id = 2

\* C14: a HybridStorage.load() issued right after a successful import, with
\* the remote store answering, returns the Document the import merged.
C14_ImportReadBack ==
    (/\ op = "load" /\ stats.success
     /\ env.load = NoAns \/ LoadSucceeded(env.load) \/ env.load.s1 = 404)
        => (loadRet = updated /\ ~raised)

\* C15: when import_from_excel returns (False, error), the persisted
\* Document is the one from before the call.
C15_FailedImportLeavesDocument ==
    (op = "import" /\ ~stats.success)
        => /\ LoadCurrentData(localFile) = LoadCurrentData(localPre)
           /\ remoteFile = remotePre


\* What the export -> import round trip is to keep of a card: everything
\* but its identifier.
Content(card) == [card EXCEPT !.id = 0]

\* C18: importing in replace mode the workbook just exported from the
\* Document gives cards of the same question, answer, theme, difficulty, hidden
\* and version values, in the same order.
C18_RoundTripKeepsContent ==
    (/\ op = "import" /\ exported.success
     /\ stats.success /\ stats.mode = "replace")
        => [i \in DOMAIN updated.cards |-> Content(updated.cards[i])]
               = [i \in DOMAIN CardsBefore |-> Content(CardsBefore[i])]


\* C19 as stated: importing in append mode the workbook just exported from
\* the Document imports nothing, skips as many rows as there are cards and
\* leaves the card sequence as it was.
C19_ReimportSkipsEveryCard ==
    (/\ op = "import" /\ exported.success
     /\ stats.success /\ stats.mode = "append")
        => /\ stats.imported = 0
           /\ stats.skipped = Len(CardsBefore)
           /\ updated.cards = CardsBefore

\* C19: the same, for a Document of no more cards than import_from_excel
\* reads data rows (max_rows less the header row).
C19_ReimportSkipsCardsRead ==
    (/\ op = "import" /\ exported.success
     /\ stats.success /\ stats.mode = "append"
     /\ Len(CardsBefore) <= ImportMaxRows - 1)
        => /\ stats.imported = 0
           /\ stats.skipped = Len(CardsBefore)
           /\ updated.cards = CardsBefore

C19_Witness ==
    /\ op = "import" /\ exported.success
    /\ stats.success /\ stats.mode = "append"
    /\ Len(CardsBefore) = 2
    /\ stats.skipped = 2
    /\ \E i \in DOMAIN CardsBefore : CardsBefore[i].question # NormalizeText(CardsBefore[i].question)


\* The cards export_to_excel found in the file it read.
CardsExported == LoadCurrentData(localFile).cards

\* C20: with no card in the Document, or the file absent or unreadable,
\* export_to_excel fails with the "no data" error and gives no workbook; a
\* workbook it does give has a data row besides the header row.
C20_NoDataNoWorkbook ==
    op = "export"
        => /\ CardsExported = <<>>
              => (~exported.success /\ exported.error = "no data" /\ workbook = <<>>)
           /\ exported.success
              => (Len(workbook) = Len(CardsExported) + 1 /\ Len(workbook) >= 2)

C20_Witness ==
    /\ op = "export"
    /\ localFile # Absent
    /\ JsonLoads(localFile).ok
    /\ CardsExported = <<>>
    /\ ~exported.success


\* C22: save_cards reports the save as successful only when the local
\* write succeeded (results['local'] is True).
C22_SuccessMeansLocalWrite ==
    (op \in {"create", "delete"} /\ flashed \in {"saved locally", "saved and synced"})
        => saveRet.local


\* Both concurrent callers have returned from their save.
BothSaved == Len(finished) = Cardinality(Callers)

\* C21: once both concurrent callers have saved, the stored Document is the
\* Document written by the save that returned last.
C21_LastWriteWins ==
    BothSaved => localFile = JsonDumps(held[finished[Len(finished)]])


\* C23: in yandex or hybrid mode with a token, a load whose remote load did
\* not succeed leaves the local file as it was.
C23_FailedLoadKeepsCache ==
    (/\ op = "load" /\ mode \in {"yandex", "hybrid"} /\ token
     /\ env.load # NoAns /\ ~LoadSucceeded(env.load))
        => localFile = localPre


\* C24: after a successful append import the persisted next_id is not below
\* the next_id the Document had before the import.
C24_AppendKeepsWatermark ==
    (op = "import" /\ stats.success /\ stats.mode = "append")
        => LoadCurrentData(localFile).next_id >= LoadCurrentData(localPre).next_id


\* The cards the file holds once the import has returned.
CardsAfter == LoadCurrentData(localFile).cards

\* How many times the card occurs among the cards.
CountCard(cards, card) == Cardinality({i \in DOMAIN cards : cards[i] = card})

\* Every card of before is among after as many times at least, and after
\* has imported cards more.
OnlyAdded(before, after, imported) ==
    /\ \A card \in SeqSet(before) : CountCard(after, card) >= CountCard(before, card)
    /\ Len(after) = Len(before) + imported

\* C25: a successful append import into a Document that has cards keeps
\* every one of them, identifier and fields as they were, and only adds the
\* imported cards.
C25_AppendKeepsExistingCards ==
    (op = "import" /\ stats.success /\ stats.mode = "append" /\ CardsBefore # <<>>)
        => OnlyAdded(CardsBefore, CardsAfter, stats.imported)

C25_Witness ==
    /\ op = "import" /\ stats.success /\ stats.mode = "append"
    /\ Len(CardsBefore) = 2 /\ Ids(CardsBefore) = {1, 3}
    /\ stats.imported = 2
    /\ Len(CardsAfter) = 4


\* The place in read of the first card whose question normalizes to key.
FirstOfKey(read, key) ==
    MinOf({i \in DOMAIN read : NormalizeText(read[i].question) = key})

\* Of the cards read that share a key no card of cur has, the first one is
\* the one card of that key in after, and the others count as skipped.
FirstOfEachKeyAdded(cur, read, keys, st, after) ==
    /\ \A key \in keys :
          /\ CountKey(after, key) = 1
          /\ \E j \in DOMAIN after :
                Content(after[j]) = Content(read[FirstOfKey(read, key)])
    /\ st.imported = Cardinality(keys)
    /\ st.skipped = Len(read) - Cardinality(keys)
    /\ Len(after) = Len(cur) + Cardinality(keys)

\* C26: in an append, of the rows read that share a normalized question no
\* card of the Document has, the first in file order is appended and every
\* later one is counted as skipped, whether the Document has cards or not.
C26_FirstOfBatchAppended ==
    (op = "import" /\ stats.success /\ stats.mode = "append")
        => FirstOfEachKeyAdded(CardsBefore, CardsRead,
                               ExistingQuestions(CardsRead) \ ExistingQuestions(CardsBefore),
                               stats, CardsAfter)

C26_Witness ==
    /\ op = "import" /\ stats.success /\ stats.mode = "append"
    /\ CardsBefore = <<>>
    /\ Len(CardsRead) = 2
    /\ CardsRead[1].question # CardsRead[2].question
    /\ NormalizeText(CardsRead[1].question) = NormalizeText(CardsRead[2].question)
    /\ stats.imported = 1 /\ stats.skipped = 1
    /\ CardsAfter[1].question = CardsRead[1].question


\* The Document the file holds before and after the import.
DocumentBefore == LoadCurrentData(localPre)

DocumentAfter == LoadCurrentData(localFile)

\* The themes list holds, once each, the themes kept and every theme named
\* between the commas of a card's theme.
ThemesAreUnion(themes, kept, cards) ==
    /\ SeqSet(themes) = kept \cup UNION {TextOf[cards[i].theme].themes : i \in DOMAIN cards}
    /\ Cardinality(SeqSet(themes)) = Len(themes)

\* C27: after a successful import the persisted themes list is the union of
\* the themes listed before (none of them in replace mode) and every
\* non-empty, trimmed, comma-separated theme token of every card persisted.
C27_ThemesAreUnion ==
    (op = "import" /\ stats.success)
        => ThemesAreUnion(DocumentAfter.themes,
                          IF stats.mode = "replace" THEN {}
                          ELSE SeqSet(DocumentBefore.themes),
                          DocumentAfter.cards)

C27_Witness ==
    /\ op = "import" /\ stats.success /\ stats.mode = "replace"
    /\ DocumentBefore.themes = <<"A">>
    /\ DocumentAfter.themes = <<"B">>
    /\ \E i \in DOMAIN DocumentAfter.cards : DocumentAfter.cards[i].theme = "B,"


\* C28: the statistics of a successful import add up: in append mode
\* imported + skipped + errors is the number of cards parsed from the file
\* and total is previous_total + imported; in replace mode imported is
\* total and skipped is 0.
C28_StatsAddUp ==
    (op = "import" /\ stats.success)
        => /\ stats.mode = "append"
              => /\ stats.imported + stats.skipped + stats.errors = Len(CardsRead)
                 /\ stats.total = stats.previous_total + stats.imported
           /\ stats.mode = "replace"
              => (stats.imported = stats.total /\ stats.skipped = 0)

C28_Witness ==
    /\ op = "import" /\ stats.success /\ stats.mode = "append"
    /\ stats.previous_total = 2 /\ stats.imported = 1 /\ stats.skipped = 1
    /\ stats.total = 3 /\ Len(CardsRead) = 2


\* The card has no question to compare: its question is empty or only
\* punctuation, while it has an answer.
Questionless(card) == NormalizeText(card.question) = "" /\ card.answer # ""

\* Any two cards read that have no question to compare and different
\* answers are both among the cards after.
QuestionlessImported(read, after) ==
    \A i, j \in {k \in DOMAIN read : Questionless(read[k])} :
        (i < j /\ read[i].answer # read[j].answer)
            => \E m, n \in DOMAIN after :
                  /\ m # n
                  /\ Content(after[m]) = Content(read[i])
                  /\ Content(after[n]) = Content(read[j])

\* C29: in an append, two rows without a question text to compare and with
\* different answers are both imported (the Document holding no such card).
C29_QuestionlessRowsImported ==
    (/\ op = "import" /\ stats.success /\ stats.mode = "append"
     /\ \A k \in DOMAIN CardsBefore : ~Questionless(CardsBefore[k]))
        => QuestionlessImported(CardsRead, CardsAfter)


\* The spellings the fixed tables list, in the letter cases the sheets use.
EasyLabels == {"easy", "EASY", "Easy", "legkij", "Legkij", "LEGKIJ"}

MediumLabels == {"medium", "MEDIUM", "Srednij", "SREDNIJ"}

HardLabels == {"hard", "HARD", "Hard", "Slozhnyj", "SLOZHNYJ"}

TrueLabels == {"da", "Da", "DA", "yes", "YES", "Yes", "true", "TRUE", "True", "1", "+"}

\* What the row's labels are to give in the card.
LabelsMapped(row, card) ==
    /\ row.difficulty \in EasyLabels => card.difficulty = "easy"
    /\ row.difficulty \in MediumLabels => card.difficulty = "medium"
    /\ row.difficulty \in HardLabels => card.difficulty = "hard"
    /\ row.difficulty \notin EasyLabels \cup MediumLabels \cup HardLabels
          => card.difficulty = "medium"
    /\ card.hidden = (row.hidden \in TrueLabels)

\* C30: whatever the letter case of the difficulty and hidden labels, the
\* row is parsed into a card: a listed spelling gives its value, any other
\* or empty difficulty gives 'medium', any other or empty hidden gives false.
C30_LabelsMapped ==
    op = "parse"
        => /\ Len(updated.cards) = Len(workbook) - 1
           /\ \A i \in DOMAIN updated.cards : LabelsMapped(workbook[i + 1], updated.cards[i])

C30_Witness ==
    /\ op = "parse"
    /\ workbook[2].difficulty = "LEGKIJ" /\ workbook[2].hidden = "YES"
    /\ updated.cards[1].difficulty = "easy" /\ updated.cards[1].hidden

====
